---- MODULE Spec2Model ----
(***************************************************************************)
(* A state-machine model of fftvis/simulate.py: simulate_vis, simulate    *)
(* and simulate_basis.                                                     *)
(*                                                                         *)
(* Numbers.  Complex values are Gaussian integers <<re, im>>.  Baseline    *)
(* vectors, direction cosines and frequencies are integers in units chosen *)
(* so that every transform phase 2*pi*(tx*u + ty*v) is a whole number of   *)
(* quarter turns; exp(i*phase) is then one of 1, i, -1, -i and the type-3  *)
(* non-uniform transform is evaluated exactly by its defining sum.         *)
(* Source fluxes are even integers, so that the factor 0.5 is exact.       *)
(*                                                                         *)
(* Arrays are functions from index tuples to values; every axis is 1-based *)
(* here, so numpy index i is index i + 1: antenna a, which the code uses   *)
(* as an array index, is index a + 1 of an antenna axis.                   *)
(***************************************************************************)
EXTENDS Integers, Sequences, FiniteSets, TLC

\* ------------------------------------------------------------- bounds
NTimes == 2
NFreqs == 2
MaxSrcs == 2

\* --------------------------------------------------- complex arithmetic
CZero == <<0, 0>>

CAdd(a, b) == <<a[1] + b[1], a[2] + b[2]>>

CMul(a, b) == <<a[1] * b[1] - a[2] * b[2], a[1] * b[2] + a[2] * b[1]>>

CConj(a) == <<a[1], -a[2]>>

CReal(n) == <<n, 0>>

\* exp(i * n * pi/2)
QuarterTurn(n) ==
  CASE n % 4 = 0 -> <<1, 0>>
    [] n % 4 = 1 -> <<0, 1>>
    [] n % 4 = 2 -> <<-1, 0>>
    [] OTHER     -> <<0, -1>>

RECURSIVE CSum(_)
CSum(s) == IF s = <<>> THEN CZero ELSE CAdd(Head(s), CSum(Tail(s)))

\* ------------------------------------------------------ numpy helpers
Vec2Sub(b, a) == <<b[1] - a[1], b[2] - a[2]>>

Vec2Neg(v) == <<-v[1], -v[2]>>

\* np.dot(eq2top, crd_eq) for one source column
MatVec(m, v) ==
  [r \in 1..3 |-> m[r][1] * v[1] + m[r][2] * v[2] + m[r][3] * v[3]]

\* all index tuples of an array of the given shape
RECURSIVE Indices(_)
Indices(shape) ==
  IF shape = <<>> THEN {<<>>}
  ELSE {<<i>> \o rest : i \in 1..Head(shape), rest \in Indices(Tail(shape))}

\* np.zeros(shape)
Zeros(shape) == [ix \in Indices(shape) |-> CZero]

\* whether numpy can broadcast an array of shape src into one of shape dst
\* (same number of axes: every source axis has the target's length or is 1)
Broadcastable(src, dst) ==
  /\ Len(src) = Len(dst)
  /\ \A d \in 1..Len(src) : src[d] = dst[d] \/ src[d] = 1

\* the source element that lands on target index ix
BroadcastIndex(src, ix) == [d \in 1..Len(src) |-> IF src[d] = 1 THEN 1 ELSE ix[d]]

\* ------------------------------------------------------------ inputs
\* Antenna layouts, antenna identifier -> (east, north), all positions
\* distinct.  The first is an east-west line in which the pair (0,2) has the
\* opposite of the spacing of (0,1); the second is an L.
Layouts ==
  { (0 :> <<1, 0>> @@ 1 :> <<2, 0>> @@ 2 :> <<0, 0>>),
    (0 :> <<0, 0>> @@ 1 :> <<1, 0>> @@ 2 :> <<0, 1>>) }

\* a layout with antennas 0 and 1 at the same position
ColocatedLayouts ==
  { (0 :> <<0, 0>> @@ 1 :> <<0, 0>> @@ 2 :> <<1, 0>>) }

\* the baselines argument: <<>> is None (or an empty list); 3 is no antenna
BaselineArgs ==
  { <<>>,
    << <<0, 1>> >>, << <<1, 0>> >>,
    << <<0, 1>>, <<0, 2>> >>,
    << <<0, 3>> >>, << <<0, 1>>, <<3, 0>> >> }

\* freqs[fi], in model units
freqs == [fi \in 1..NFreqs |-> fi]

\* the basis axis of simulate_basis, co-indexed with the sources' second axis
eta == [e \in 1..NFreqs |-> e - 1]

\* A point source: equatorial Cartesian coordinates and flux per channel.
Source(crd, base) == [crd |-> crd, flux |-> [fi \in 1..NFreqs |-> base * fi]]

SourceTypes == { Source(<<1, 0, 1>>, 2), Source(<<0, 1, -1>>, 4) }

SeqsUpTo(S, n) == UNION {[1..k -> S] : k \in 0..n}

Skies == SeqsUpTo(SourceTypes, MaxSrcs)

\* eq2top matrices: the identity and the rotation by 180 degrees about east
Rotations ==
  { << <<1, 0, 0>>, <<0, 1, 0>>, <<0, 0, 1>> >>,
    << <<1, 0, 0>>, <<0, -1, 0>>, <<0, 0, -1>> >> }

Calls ==
  [entry : {"simulate_vis"}, precision : {1, 2, 3}, accuracy : {"None", "1e-6"},
   polarized : {FALSE}]
  \cup [entry : {"simulate"}, precision : {1, 2, 3}, accuracy : {"1e-6"},
        polarized : BOOLEAN]
  \cup [entry : {"simulate_basis"}, precision : {1, 2, 3}, accuracy : {"1e-6"},
        polarized : {FALSE}]

\* ------------------------------------------------------------- state
VARIABLES
  fn,          \* the function running: simulate_vis, simulate or simulate_basis
  pc,          \* where it is
  antpos, baselines, precision, accuracy, polarized, sources, eq2tops,  \* arguments
  complex_dtype, expand_vis, bls, bl_to_red_map,   \* locals set before the loop
  vis, tvis,   \* vis and _vis
  ti, fi,      \* loop counters (1-based; 0 before the loop)
  log,         \* the collaborator calls and array writes made so far, in order
  result       \* the returned array, or the error raised

args == <<antpos, baselines, precision, accuracy, polarized, sources, eq2tops>>

locals == <<complex_dtype, expand_vis, bls, bl_to_red_map>>

vars == <<fn, pc, args, locals, vis, tvis, ti, fi, log, result>>

nants == Cardinality(DOMAIN antpos)

ntimes == Len(eq2tops)

nfreqs == Len(freqs)

nfeeds == IF polarized THEN 2 ELSE 1

nbls == Len(bls)

\* -------------------------------------------------- default accuracy
default_accuracy_dict == (1 :> "6e-8" @@ 2 :> "1e-12")

\* ------------------------------------------------- redundancy grouper
\* utils.get_pos_reds: the antenna pairs (i, j), i <= j (i < j without autos),
\* taken in order; a pair joins the first group whose representative has its
\* baseline vector, or, reversed, the group with the opposite vector; else
\* it starts a group of its own.  A group's first pair is its representative.
PairsFrom(i, n, include_autos) ==
  [k \in 1..(IF include_autos THEN n - i ELSE n - i - 1) |->
     <<i, IF include_autos THEN i + k - 1 ELSE i + k>>]

RECURSIVE AllPairs(_, _, _)
AllPairs(i, n, include_autos) ==
  IF i >= n THEN <<>>
  ELSE PairsFrom(i, n, include_autos) \o AllPairs(i + 1, n, include_autos)

BlVec(pos, bl) == Vec2Sub(pos[bl[2]], pos[bl[1]])

RECURSIVE GroupPairs(_, _, _)
GroupPairs(pos, pairs, reds) ==
  IF pairs = <<>> THEN reds
  ELSE LET p == Head(pairs)
           same == {g \in 1..Len(reds) : BlVec(pos, reds[g][1]) = BlVec(pos, p)}
           opp  == {g \in 1..Len(reds) :
                      BlVec(pos, reds[g][1]) = Vec2Neg(BlVec(pos, p))}
           g1 == CHOOSE g \in same : TRUE
           g2 == CHOOSE g \in opp : TRUE
       IN  GroupPairs(pos, Tail(pairs),
             IF same # {} THEN [reds EXCEPT ![g1] = Append(@, p)]
             ELSE IF opp # {} THEN [reds EXCEPT ![g2] = Append(@, <<p[2], p[1]>>)]
             ELSE Append(reds, <<p>>))

get_pos_reds(pos, include_autos) ==
  GroupPairs(pos, AllPairs(0, Cardinality(DOMAIN pos), include_autos), <<>>)

\* include_autos when simulate_basis calls get_pos_reds(antpos)
DefaultIncludeAutos == TRUE

\* ------------------------------------------------- coordinate stepper
\* (tx, ty, tz) of source j at time t: np.dot(eq2top, crd_eq)
Top(t, j) == MatVec(eq2tops[t], sources[j].crd)

\* a stepper that keeps every source, below the horizon or not
AboveHorizonKeepAll(t) == [j \in 1..Len(sources) |-> j]

\* above_horizon = tz > 0, as the indices of the sources kept, in order
AboveHorizon(t) ==
  SelectSeq([j \in 1..Len(sources) |-> j], LAMBDA j : Top(t, j)[3] > 0)

\* nsim_sources
nsim_sources(t) == Len(AboveHorizon(t))

\* Isky = (0.5 * sources).astype(complex_dtype)
Isky(j, f) == CReal(sources[j].flux[f] \div 2)

\* ------------------------------------------------------- beam model
\* beams._evaluate_beam for one direction: the complex gain of feed fd along
\* axis ax.  A direction-independent beam whose gain differs per feed.
evaluate_beam(ax, fd, az_za, freq) == <<ax, fd - 1>>

\* A_s after np.flipud: row ax holds the gains of axis nax + 1 - ax
A_s(ax, fd, az_za, freq) == evaluate_beam(nfeeds + 1 - ax, fd, az_za, freq)

\* ------------------------------------------------ non-uniform transform
\* finufft.nufft2d3 at one target (s, t): sum_j c[j] * exp(i (s x[j] + t y[j])),
\* with s * x[j] + t * y[j] counted in quarter turns
nufft2d3(x, y, c, s, t) ==
  CSum([j \in 1..Len(c) |-> CMul(c[j], QuarterTurn(s * x[j] + t * y[j]))])

\* finufft.nufft3d3 at one target (s, t, u)
nufft3d3(x, y, z, c, s, t, u) ==
  CSum([j \in 1..Len(c) |->
          CMul(c[j], QuarterTurn(s * x[j] + t * y[j] + u * z[j]))])

\* --------------------------------------------- per-frequency kernel
\* (blx, bly) of baseline k of the list B: antpos[bl[1]] - antpos[bl[0]]
blxy(B, k) == BlVec(antpos, B[k])

\* i_sky = A_s * A_s.conj() * Isky[above_horizon, fi], row (p, q)
i_sky(t, f, p, q) ==
  LET ah == AboveHorizon(t)
  IN  [n \in 1..Len(ah) |->
         LET a == A_s(p, q, <<Top(t, ah[n])[1], Top(t, ah[n])[2]>>, freqs[f])
         IN  CMul(CMul(a, CConj(a)), Isky(ah[n], f))]

\* v.reshape(nfeeds, nfeeds, nbls)[p, q, k] for time t and channel f
KernelValue(B, t, f, p, q, k) ==
  LET ah == AboveHorizon(t)
      tx == [n \in 1..Len(ah) |-> Top(t, ah[n])[1]]
      ty == [n \in 1..Len(ah) |-> Top(t, ah[n])[2]]
      u  == blxy(B, k)[1] * freqs[f]
      v  == blxy(B, k)[2] * freqs[f]
  IN  nufft2d3(tx, ty, i_sky(t, f, p, q), u, v)

\* _vis[..., fi] = v.reshape(nfeeds, nfeeds, nbls)
KernelWrite(w, B, t, f) ==
  [ix \in DOMAIN w |->
     IF ix[4] = f THEN KernelValue(B, t, f, ix[1], ix[2], ix[3]) ELSE w[ix]]

\* ------------------------------------------------ visibility expander
\* an accumulation that drops the time index and adds into every time slice
RECURSIVE AddAtEveryTime(_, _, _, _, _, _)
AddAtEveryTime(v, t, red, first, second, val) ==
  IF red = <<>> THEN v
  ELSE AddAtEveryTime([ix \in DOMAIN v |->
                         IF /\ ix[2] = Head(red)[first] + 1
                            /\ ix[3] = Head(red)[second] + 1
                         THEN CAdd(v[ix], val[<<ix[4], ix[5], ix[6]>>])
                         ELSE v[ix]],
                      t, Tail(red), first, second, val)

\* np.add.at(vis, (ti, red[:, first], red[:, second]), val): one addition per
\* member of the group, val indexed by (p, q, f)
RECURSIVE AddAt(_, _, _, _, _, _)
AddAt(v, t, red, first, second, val) ==
  IF red = <<>> THEN v
  ELSE AddAt([ix \in DOMAIN v |->
                IF /\ ix[1] = t
                   /\ ix[2] = Head(red)[first] + 1
                   /\ ix[3] = Head(red)[second] + 1
                THEN CAdd(v[ix], val[<<ix[4], ix[5], ix[6]>>])
                ELSE v[ix]],
             t, Tail(red), first, second, val)

\* _vis[..., bi, :]
Slice(w, bi) ==
  [ix \in Indices(<<nfeeds, nfeeds, nfreqs>>) |-> w[<<ix[1], ix[2], bi, ix[3]>>]]

ConjAll(val) == [ix \in DOMAIN val |-> CConj(val[ix])]

\* whether the conjugate of the group of representative bl is added
AddsConjugate(bl) == bl[1] # bl[2]

\* the body of "for bi, bls in enumerate(baselines)" for one bi; R[bi] is
\* bl_to_red_map[baselines[bi]]
ExpandGroup(v, t, w, B, R, bi) ==
  LET v1 == AddAt(v, t, R[bi], 1, 2, Slice(w, bi))
  IN  IF AddsConjugate(B[bi])
      THEN AddAt(v1, t, R[bi], 2, 1, ConjAll(Slice(w, bi)))
      ELSE v1

RECURSIVE ExpandFrom(_, _, _, _, _, _)
ExpandFrom(v, t, w, B, R, bi) ==
  IF bi > Len(B) THEN v
  ELSE ExpandFrom(ExpandGroup(v, t, w, B, R, bi), t, w, B, R, bi + 1)

\* the shapes of vis[ti] and _vis in compact mode
CompactRowShape == <<nbls, nfeeds, nfeeds, nfreqs>>

TvisShape(nb) == <<nfeeds, nfeeds, nb, nfreqs>>

\* vis[ti] = _vis: numpy broadcasts _vis into vis[ti] position by position
CompactAssign(v, t, w) ==
  [ix \in DOMAIN v |->
     IF ix[1] = t
     THEN w[BroadcastIndex(TvisShape(nbls), <<ix[2], ix[3], ix[4], ix[5]>>)]
     ELSE v[ix]]

\* ------------------------------------------------------ returned array
\* np.transpose(vis, (5, 0, 3, 4, 1, 2)): [f, t, p, q, a, b]
ReturnFullPolarized(v) ==
  [ix \in Indices(<<nfreqs, ntimes, nfeeds, nfeeds, nants, nants>>) |->
     v[<<ix[2], ix[5], ix[6], ix[3], ix[4], ix[1]>>]]

\* np.moveaxis(vis[..., 0, 0, :], 3, 0): [f, t, a, b]
ReturnFullUnpolarized(v) ==
  [ix \in Indices(<<nfreqs, ntimes, nants, nants>>) |->
     v[<<ix[2], ix[3], ix[4], 1, 1, ix[1]>>]]

\* np.transpose(vis, (4, 0, 2, 3, 1)): [f, t, p, q, k]
ReturnCompactPolarized(v) ==
  [ix \in Indices(<<nfreqs, ntimes, nfeeds, nfeeds, nbls>>) |->
     v[<<ix[2], ix[5], ix[3], ix[4], ix[1]>>]]

\* np.moveaxis(vis[..., 0, 0, :], 2, 0): [f, t, k]
ReturnCompactUnpolarized(v) ==
  [ix \in Indices(<<nfreqs, ntimes, nbls>>) |-> v[<<ix[2], ix[3], 1, 1, ix[1]>>]]

Returned(v) ==
  IF expand_vis
  THEN IF polarized THEN ReturnFullPolarized(v) ELSE ReturnFullUnpolarized(v)
  ELSE IF polarized THEN ReturnCompactPolarized(v) ELSE ReturnCompactUnpolarized(v)

\* ------------------------------------------------------ basis variant
\* _vis[f, b] of simulate_basis at time t: one 3-d transform whose points are
\* np.ravel of meshgrid(tx, eta) (basis-major) and whose strengths are
\* np.ravel(Isky[above_horizon]) (source-major)
BasisValue(t, f, b) ==
  LET ah   == AboveHorizon(t)
      nvis == Len(ah)
      neta == Len(eta)
      npts == neta * nvis
      src(j) == ah[((j - 1) % nvis) + 1]
      x == [j \in 1..npts |-> Top(t, src(j))[1]]
      y == [j \in 1..npts |-> Top(t, src(j))[2]]
      z == [j \in 1..npts |-> eta[((j - 1) \div nvis) + 1]]
      c == [j \in 1..npts |->
              Isky(ah[((j - 1) \div nfreqs) + 1], ((j - 1) % nfreqs) + 1)]
  IN  nufft3d3(x, y, z, c,
               blxy(bls, b)[1] * freqs[f], blxy(bls, b)[2] * freqs[f], freqs[f])

BasisTvis(t) == [ix \in Indices(<<nfreqs, nbls>>) |-> BasisValue(t, ix[1], ix[2])]

\* np.add.at(vis, (red[:, first], red[:, second], ti), val), val indexed by f
RECURSIVE BasisAddAt(_, _, _, _, _, _)
BasisAddAt(v, t, red, first, second, val) ==
  IF red = <<>> THEN v
  ELSE BasisAddAt([ix \in DOMAIN v |->
                     IF /\ ix[1] = Head(red)[first] + 1
                        /\ ix[2] = Head(red)[second] + 1
                        /\ ix[3] = t
                     THEN CAdd(v[ix], val[ix[4]])
                     ELSE v[ix]],
                  t, Tail(red), first, second, val)

BasisExpandGroup(v, t, w, bi) ==
  LET red == bl_to_red_map[bi]
      col == [f \in 1..nfreqs |-> w[<<f, bi>>]]
      v1  == BasisAddAt(v, t, red, 1, 2, col)
  IN  BasisAddAt(v1, t, red, 2, 1, [f \in 1..nfreqs |-> CConj(col[f])])

RECURSIVE BasisExpandFrom(_, _, _, _)
BasisExpandFrom(v, t, w, bi) ==
  IF bi > nbls THEN v
  ELSE BasisExpandFrom(BasisExpandGroup(v, t, w, bi), t, w, bi + 1)

\* ------------------------------------------------------------ actions
NoResult == [kind |-> "none"]

Raised(e) == [kind |-> "error", error |-> e]

ArrayResult(a) == [kind |-> "array", value |-> a]

\* a lookup that checks only the first antenna of a baseline
KnownFirstAntenna(bl) == bl[1] \in DOMAIN antpos

\* whether antpos[bl[1]] - antpos[bl[0]] finds both antennas
KnownAntennas(bl) == bl[1] \in DOMAIN antpos /\ bl[2] \in DOMAIN antpos

InitWith(layouts) ==
  /\ \E c \in Calls :
       /\ fn = c.entry
       /\ pc = "call"
       /\ precision = c.precision
       /\ accuracy = c.accuracy
       /\ polarized = c.polarized
  /\ antpos \in layouts
  /\ baselines \in BaselineArgs
  /\ sources \in Skies
  /\ eq2tops \in [1..NTimes -> Rotations]
  /\ complex_dtype = "unset"
  /\ expand_vis = FALSE
  /\ bls = <<>>
  /\ bl_to_red_map = <<>>
  /\ vis = <<>>
  /\ tvis = <<>>
  /\ ti = 0
  /\ fi = 0
  /\ log = <<>>
  /\ result = NoResult

Init == InitWith(Layouts)

InitColocated == InitWith(ColocatedLayouts)

\* simulate_vis: the default accuracy, the coordinate conversions, then simulate
SimulateVis ==
  /\ fn = "simulate_vis" /\ pc = "call"
  /\ IF accuracy = "None" /\ precision \notin DOMAIN default_accuracy_dict
     THEN /\ pc' = "raised"
          /\ result' = Raised("KeyError")
          /\ UNCHANGED <<fn, accuracy>>
     ELSE /\ fn' = "simulate"
          /\ pc' = "call"
          /\ accuracy' = IF accuracy = "None" THEN default_accuracy_dict[precision]
                         ELSE accuracy
          /\ UNCHANGED result
  /\ UNCHANGED <<antpos, baselines, precision, polarized, sources, eq2tops>>
  /\ UNCHANGED <<locals, vis, tvis, ti, fi, log>>

\* simulate, up to the time loop
Setup ==
  /\ fn = "simulate" /\ pc = "call"
  /\ LET expand == (baselines = <<>>)
         reds   == get_pos_reds(antpos, TRUE)
         newbls == IF expand THEN [g \in 1..Len(reds) |-> reds[g][1]] ELSE baselines
         calls  == (IF expand THEN << <<"get_pos_reds">> >> ELSE <<>>)
                     \o << <<"prepare_beam">> >>
         shape  == IF expand
                   THEN <<ntimes, nants, nants, nfeeds, nfeeds, nfreqs>>
                   ELSE <<ntimes, Len(newbls), nfeeds, nfeeds, nfreqs>>
     IN  /\ complex_dtype' = IF precision = 1 THEN "complex64" ELSE "complex128"
         /\ expand_vis' = expand
         /\ bls' = newbls
         /\ bl_to_red_map' = IF expand THEN reds ELSE <<>>
         /\ IF \A k \in 1..Len(newbls) : KnownAntennas(newbls[k])
            THEN /\ vis' = Zeros(shape)
                 /\ log' = log \o calls \o << <<"zeros">> >>
                 /\ ti' = 1
                 /\ pc' = IF ntimes >= 1 THEN "time" ELSE "return"
                 /\ UNCHANGED result
            ELSE /\ pc' = "raised"
                 /\ result' = Raised("KeyError")
                 /\ log' = log \o calls
                 /\ UNCHANGED <<vis, ti>>
  /\ UNCHANGED <<fn, args, tvis, fi>>

\* the head of one pass of the time loop: above_horizon, _vis zeroed, az/za
TimeStep ==
  /\ pc = "time"
  /\ tvis' = Zeros(TvisShape(nbls))
  /\ fi' = 1
  /\ log' = Append(log, <<"enu_to_az_za", ti, nsim_sources(ti)>>)
  /\ pc' = "freq"
  /\ UNCHANGED <<fn, args, locals, vis, ti, result>>

\* one pass of the frequency loop: beam, sky-beam product, transform
Kernel ==
  /\ pc = "freq"
  /\ tvis' = KernelWrite(tvis, bls, ti, fi)
  /\ log' = log \o << <<"evaluate_beam", ti, fi, nsim_sources(ti)>>,
                      <<"nufft2d3", ti, fi, nsim_sources(ti)>> >>
  /\ IF fi < nfreqs
     THEN fi' = fi + 1 /\ pc' = "freq"
     ELSE fi' = fi /\ pc' = "expand"
  /\ UNCHANGED <<fn, args, locals, vis, ti, result>>

NextTime ==
  IF ti < ntimes THEN ti' = ti + 1 /\ pc' = "time" ELSE ti' = ti /\ pc' = "return"

\* expand_vis: the groups' values and conjugates added into vis[ti]
Expand ==
  /\ pc = "expand"
  /\ expand_vis
  /\ vis' = ExpandFrom(vis, ti, tvis, bls, bl_to_red_map, 1)
  /\ log' = Append(log, <<"expand", ti>>)
  /\ NextTime
  /\ UNCHANGED <<fn, args, locals, tvis, fi, result>>

\* not expand_vis: vis[ti] = _vis
CompactCopy ==
  /\ pc = "expand"
  /\ ~expand_vis
  /\ IF Broadcastable(TvisShape(nbls), CompactRowShape)
     THEN /\ vis' = CompactAssign(vis, ti, tvis)
          /\ log' = Append(log, <<"copy", ti>>)
          /\ NextTime
          /\ UNCHANGED result
     ELSE /\ pc' = "raised"
          /\ result' = Raised("ValueError")
          /\ UNCHANGED <<vis, log, ti>>
  /\ UNCHANGED <<fn, args, locals, tvis, fi>>

Return ==
  /\ pc = "return"
  /\ result' = ArrayResult(Returned(vis))
  /\ pc' = "done"
  /\ UNCHANGED <<fn, args, locals, vis, tvis, ti, fi, log>>

\* simulate_basis, up to the time loop
BasisSetup ==
  /\ fn = "simulate_basis" /\ pc = "call"
  /\ LET expand == (baselines = <<>>)
         reds   == get_pos_reds(antpos, DefaultIncludeAutos)
         newbls == IF expand THEN [g \in 1..Len(reds) |-> reds[g][1]] ELSE baselines
         calls  == IF expand THEN << <<"get_pos_reds">> >> ELSE <<>>
         shape  == IF expand
                   THEN <<nants, nants, ntimes, nfreqs>>
                   ELSE <<Len(newbls), ntimes, nfreqs>>
     IN  /\ complex_dtype' = IF precision = 1 THEN "complex64" ELSE "complex128"
         /\ expand_vis' = expand
         /\ bls' = newbls
         /\ bl_to_red_map' = IF expand THEN reds ELSE <<>>
         /\ IF \A k \in 1..Len(newbls) : KnownAntennas(newbls[k])
            THEN /\ vis' = Zeros(shape)
                 /\ log' = log \o calls \o << <<"zeros">> >>
                 /\ ti' = 1
                 /\ pc' = IF ntimes >= 1 THEN "basis_time" ELSE "basis_return"
                 /\ UNCHANGED result
            ELSE /\ pc' = "raised"
                 /\ result' = Raised("KeyError")
                 /\ log' = log \o calls
                 /\ UNCHANGED <<vis, ti>>
  /\ UNCHANGED <<fn, args, tvis, fi>>

\* one pass of simulate_basis's time loop
BasisTime ==
  /\ pc = "basis_time"
  /\ tvis' = BasisTvis(ti)
  /\ log' = log \o << <<"nufft3d3", ti, nsim_sources(ti)>> >>
              \o (IF expand_vis THEN << <<"expand", ti>> >> ELSE <<>>)
  /\ vis' = IF expand_vis THEN BasisExpandFrom(vis, ti, tvis', 1) ELSE vis
  /\ IF ti < ntimes
     THEN ti' = ti + 1 /\ pc' = "basis_time"
     ELSE ti' = ti /\ pc' = "basis_return"
  /\ UNCHANGED <<fn, args, locals, fi, result>>

BasisReturn ==
  /\ pc = "basis_return"
  /\ result' = ArrayResult(vis)
  /\ pc' = "done"
  /\ UNCHANGED <<fn, args, locals, vis, tvis, ti, fi, log>>

Next ==
  \/ SimulateVis
  \/ Setup
  \/ TimeStep
  \/ Kernel
  \/ Expand
  \/ CompactCopy
  \/ Return
  \/ BasisSetup
  \/ BasisTime
  \/ BasisReturn

Spec == Init /\ [][Next]_vars

\* the same calls on an array with two antennas at one position
SpecColocated == InitColocated /\ [][Next]_vars

\* ================================================================ claims
Out == result.value

ReturnedArray == pc = "done" /\ result.kind = "array"

\* the index with its last two (antenna) positions exchanged
SwapAnts(ix) ==
  [d \in 1..Len(ix) |->
     IF d = Len(ix) - 1 THEN ix[Len(ix)]
     ELSE IF d = Len(ix) THEN ix[Len(ix) - 1]
     ELSE ix[d]]

\* the feed indices of an index of the returned array (1, 1 when unpolarized)
FeedP(ix) == IF polarized THEN ix[3] ELSE 1

FeedQ(ix) == IF polarized THEN ix[4] ELSE 1

\* no source has topocentric z > 0 at time t
NoneAbove(t) == \A j \in 1..Len(sources) : Top(t, j)[3] <= 0

\* C1: in full-expansion mode of simulate the returned array is Hermitian: the
\* entry for (b, a) is the complex conjugate of the entry for (a, b), for every
\* antenna pair, time, frequency and feed pair.
C1_Hermitian ==
  (fn = "simulate" /\ ReturnedArray /\ expand_vis) =>
    \A ix \in DOMAIN Out : Out[SwapAnts(ix)] = CConj(Out[ix])

\* C2: if no source is above the horizon at time t (an empty sky included),
\* every entry of the array simulate returns is exactly zero at time t.
C2_ZeroSources ==
  (fn = "simulate" /\ ReturnedArray) =>
    \A ix \in DOMAIN Out : NoneAbove(ix[2]) => Out[ix] = CZero

\* simulate has returned an array in which one time sample had sources that
\* were all below the horizon while another sample is not all zero
C2_Witness ==
  /\ fn = "simulate" /\ ReturnedArray
  /\ \E t \in 1..ntimes : NoneAbove(t) /\ sources # <<>>
  /\ \E ix \in DOMAIN Out : Out[ix] # CZero

\* C3: the transform is never invoked with an empty source set.
C3_NoEmptyTransform ==
  \A i \in 1..Len(log) : log[i][1] = "nufft2d3" => log[i][4] > 0

\* the array simulate returns in full-expansion mode for the same inputs
FullModeReds == get_pos_reds(antpos, TRUE)

FullModeBls == [g \in 1..Len(FullModeReds) |-> FullModeReds[g][1]]

FullModeTvis(t) ==
  [ix \in Indices(TvisShape(Len(FullModeBls))) |->
     KernelValue(FullModeBls, t, ix[4], ix[1], ix[2], ix[3])]

RECURSIVE FullModeVis(_)
FullModeVis(t) ==
  IF t = 0 THEN Zeros(<<ntimes, nants, nants, nfeeds, nfeeds, nfreqs>>)
  ELSE ExpandFrom(FullModeVis(t - 1), t, FullModeTvis(t),
                  FullModeBls, FullModeReds, 1)

FullModeResult ==
  IF polarized THEN ReturnFullPolarized(FullModeVis(ntimes))
  ELSE ReturnFullUnpolarized(FullModeVis(ntimes))

\* C4: the value compact mode returns for requested baseline (a, b) equals
\* the (a, b) entry full-expansion mode returns for the same inputs.
C4_CompactMatchesFull ==
  (fn = "simulate" /\ ReturnedArray /\ ~expand_vis) =>
    LET full == FullModeResult
    IN  \A ix \in DOMAIN Out :
          LET bl == baselines[ix[Len(ix)]]
          IN  Out[ix] = full[SubSeq(ix, 1, Len(ix) - 1) \o <<bl[1] + 1, bl[2] + 1>>]

\* C5: a precision level other than 1 or 2 fails before any computation starts:
\* nothing is grouped, prepared, allocated or transformed, nothing is returned.
C5_InvalidPrecisionRejected ==
  precision \notin {1, 2} =>
    /\ pc \in {"call", "raised"}
    /\ log = <<>>
    /\ complex_dtype = "unset"
    /\ vis = <<>>

\* the group that lists the auto-correlation pair (a, a)
AutoGroup(a) ==
  CHOOSE g \in 1..Len(bl_to_red_map) :
    \E m \in 1..Len(bl_to_red_map[g]) : bl_to_red_map[g][m] = <<a, a>>

\* C6: in the full-expansion step of simulate and of simulate_basis the output
\* cell (a, a) holds exactly one contribution of its group, not two.
C6_AutoCountedOnce ==
  (ReturnedArray /\ expand_vis) =>
    \A a \in DOMAIN antpos :
      IF fn = "simulate"
      THEN \A ix \in DOMAIN Out :
             (ix[Len(ix) - 1] = a + 1 /\ ix[Len(ix)] = a + 1) =>
               Out[ix] = KernelValue(bls, ix[2], ix[1], FeedP(ix), FeedQ(ix),
                                     AutoGroup(a))
      ELSE \A t \in 1..ntimes, f \in 1..nfreqs :
             Out[<<a + 1, a + 1, t, f>>] = BasisValue(t, f, AutoGroup(a))

\* C7: the returned array is indexed [f, t, (p, q,) k] in compact mode and
\* [f, t, (p, q,) a, b] in full-expansion mode: the entry is the value computed
\* for that frequency, time, feed pair and baseline or antenna pair.
C7_AxisOrder ==
  (fn = "simulate" /\ ReturnedArray) =>
    \A ix \in DOMAIN Out :
      IF expand_vis
      THEN Out[ix] = vis[<<ix[2], ix[Len(ix) - 1], ix[Len(ix)],
                           FeedP(ix), FeedQ(ix), ix[1]>>]
      ELSE Out[ix] = KernelValue(bls, ix[2], ix[1], FeedP(ix), FeedQ(ix),
                                 ix[Len(ix)])

\* a baseline of the baselines argument names an antenna antpos does not have
UnknownAntenna ==
  \E k \in 1..Len(baselines) :
    baselines[k][1] \notin DOMAIN antpos \/ baselines[k][2] \notin DOMAIN antpos

\* C8: when a requested baseline names an unknown antenna, simulate raises a
\* lookup error before the time loop: no beam evaluation, no transform, no
\* visibility array.
C8_UnknownAntennaRaises ==
  (fn \in {"simulate_vis", "simulate"} /\ UnknownAntenna) =>
    /\ pc \in {"call", "raised"}
    /\ pc = "raised" => result = Raised("KeyError")
    /\ result.kind # "array"
    /\ ti = 0
    /\ vis = <<>>
    /\ \A i \in 1..Len(log) :
         log[i][1] \notin {"zeros", "enu_to_az_za", "evaluate_beam", "nufft2d3"}

\* simulate itself has raised on the lookup of an unknown antenna
C8_Witness ==
  /\ fn = "simulate" /\ UnknownAntenna
  /\ complex_dtype # "unset"
  /\ pc = "raised" /\ result = Raised("KeyError")

\* C9: in compact mode simulate_basis returns, at [k, t, f], the transform
\* value of requested baseline k at time t and frequency f.
C9_BasisCompactValues ==
  (fn = "simulate_basis" /\ ReturnedArray /\ ~expand_vis) =>
    \A ix \in DOMAIN Out : Out[ix] = BasisValue(ix[2], ix[3], ix[1])

\* the transform calls made so far, in order
KernelEvents == SelectSeq(log, LAMBDA e : e[1] = "nufft2d3")

\* the transform calls are (1,1), (1,2), ..., (2,1), ... in this order, and the
\* write into vis for time t comes after all nfreqs calls of t and before any
\* call of a later time
OrderedLog ==
  /\ \A n \in 1..Len(KernelEvents) :
       /\ KernelEvents[n][2] = ((n - 1) \div nfreqs) + 1
       /\ KernelEvents[n][3] = ((n - 1) % nfreqs) + 1
  /\ \A i \in 1..Len(log) :
       log[i][1] \in {"expand", "copy"} =>
         /\ Len(SelectSeq(SubSeq(log, 1, i), LAMBDA e : e[1] = "nufft2d3"))
              = log[i][2] * nfreqs
         /\ Len(SelectSeq(SubSeq(log, 1, i),
                          LAMBDA e : e[1] \in {"expand", "copy"})) = log[i][2]

\* a step changes vis only in the time slice of the current time sample
TimeSliceFrame ==
  (vis # <<>> /\ vis' # vis) =>
    /\ pc = "expand"
    /\ fi = nfreqs
    /\ DOMAIN vis' = DOMAIN vis
    /\ \A ix \in DOMAIN vis : ix[1] # ti => vis'[ix] = vis[ix]

\* C10: simulate runs time outer, frequency inner; the expansion (or compact
\* copy) of time t follows all kernels of t and precedes those of t + 1; each
\* step writes only the current time slice of the output.
C10_NestedSequence == [][fn = "simulate" => (OrderedLog' /\ TimeSliceFrame)]_vars

\* simulate has expanded two time samples, both with non-zero visibilities
C10_Witness ==
  /\ fn = "simulate" /\ ReturnedArray /\ expand_vis
  /\ \E ix, iy \in DOMAIN Out :
       ix[2] = 1 /\ iy[2] = 2 /\ Out[ix] # CZero /\ Out[iy] # CZero
====
